---- MODULE Spec2Model ----
(***************************************************************************)
(* Model of the M&A entry tool backend: the AIOrchestrator                 *)
(* (ai_orchestrator.py) that merges a model response into the extraction   *)
(* schema, the keyword DocumentClassifier (classifier.py), the SheetWriter *)
(* (sheet_generator.py), the DocumentProcessor (document_processor.py)     *)
(* and the upload endpoint (main.py).                                      *)
(*                                                                         *)
(* Python values are modelled as tagged records [t, v]: t is the Python    *)
(* type and v is str(value).  Python strings are TLA+ strings, handled     *)
(* character by character with Len, SubSeq and \o.                         *)
(***************************************************************************)
EXTENDS Integers, Sequences, FiniteSets, TLC

VARIABLES mna_schema,     \* AIOrchestrator.mna_schema: section -> field -> value
          now,            \* the wall clock, in ticks since construction
          lastResponse,   \* the model response of the latest process_document call
          returned,       \* what the latest process_document call gave its caller
          stages,         \* the local values of the latest process_document call
          clsInput,       \* the argument handed to the classifier
          clsOp,          \* the classifier operation that ran last
          clsResult,      \* what that operation gave its caller
          writer,         \* SheetWriter.gc and SheetWriter.spreadsheet: are they set
          sheets,         \* the spreadsheet: worksheet title -> rows
          exportCount,    \* write_to_sheet calls that returned
          exportResult,   \* what the latest write_to_sheet call gave its caller
          exporters,      \* the write_to_sheet calls that run side by side
          vision_client,  \* DocumentProcessor.vision_client: is it set
          uploadCount,    \* requests the upload endpoint has answered
          upload,         \* the latest upload request and its answer
          exportAnswer    \* the latest export request and its answer

orchestratorVars == <<mna_schema, now, lastResponse, returned, stages>>
classifierVars == <<clsInput, clsOp, clsResult>>
sheetVars == <<writer, sheets, exportCount, exportResult, exporters>>
uploadVars == <<vision_client, uploadCount, upload, exportAnswer>>

vars == <<mna_schema, now, lastResponse, returned, stages, clsInput, clsOp, clsResult,
          writer, sheets, exportCount, exportResult, exporters,
          vision_client, uploadCount, upload, exportAnswer>>

(***************************************************************************)
(* Bounds                                                                  *)
(***************************************************************************)
MaxCalls == 2      \* process_document calls in one run
MaxWords == 2      \* fragments concatenated into one classifier text
MaxExports == 2    \* write_to_sheet calls in one run
MaxUploads == 1    \* upload requests in one run

(***************************************************************************)
(* Python values                                                           *)
(***************************************************************************)
Str(s) == [t |-> "str", v |-> s]
PyNone == [t |-> "none", v |-> "None"]
Num(s) == [t |-> "num", v |-> s]
PyList(s) == [t |-> "list", v |-> s]

\* bool(value)
Truthy(x) ==
  CASE x.t = "str"  -> x.v # ""
    [] x.t = "none" -> FALSE
    [] x.t = "num"  -> x.v \notin {"0", "0.0"}
    [] x.t = "list" -> x.v # "[]"
    [] OTHER        -> TRUE

(***************************************************************************)
(* Python string operations                                                *)
(***************************************************************************)
UpperAlphabet == "ABCDEFGHIJKLMNOPQRSTUVWXYZ"
LowerAlphabet == "abcdefghijklmnopqrstuvwxyz"
DigitAlphabet == "0123456789"

CharAt(s, i) == SubSeq(s, i, i)
CharsOf(alphabet) == {CharAt(alphabet, i) : i \in 1..Len(alphabet)}
UpperChars == CharsOf(UpperAlphabet)
LowerChars == CharsOf(LowerAlphabet)
DigitChars == CharsOf(DigitAlphabet)

\* the lowercase letter of each uppercase letter
ToLower ==
  [c \in UpperChars |->
     CharAt(LowerAlphabet, CHOOSE i \in 1..Len(UpperAlphabet) : CharAt(UpperAlphabet, i) = c)]

LowerChar(c) == IF c \in UpperChars THEN ToLower[c] ELSE c

\* str.lower()
RECURSIVE Lower(_)
Lower(s) ==
  IF s = "" THEN ""
  ELSE IF Len(s) = 1 THEN LowerChar(s)
  ELSE Lower(SubSeq(s, 1, Len(s) \div 2)) \o Lower(SubSeq(s, Len(s) \div 2 + 1, Len(s)))

IsSpace(c) == c \in {" ", "\t", "\n", "\r"}

RECURSIVE LStrip(_)
LStrip(s) ==
  IF s = "" THEN ""
  ELSE IF IsSpace(CharAt(s, 1)) THEN LStrip(SubSeq(s, 2, Len(s))) ELSE s

RECURSIVE RStrip(_)
RStrip(s) ==
  IF s = "" THEN ""
  ELSE IF IsSpace(CharAt(s, Len(s))) THEN RStrip(SubSeq(s, 1, Len(s) - 1)) ELSE s

\* str.strip()
Strip(s) == RStrip(LStrip(s))

IsDigit(c) == c \in DigitChars
IsWordChar(c) == c \in UpperChars \/ c \in LowerChars \/ IsDigit(c) \/ c = "_"

\* re.sub(r'[^\d.]', '', s)
RECURSIVE KeepNumeric(_)
KeepNumeric(s) ==
  IF s = "" THEN ""
  ELSE (IF IsDigit(CharAt(s, 1)) \/ CharAt(s, 1) = "." THEN CharAt(s, 1) ELSE "")
         \o KeepNumeric(SubSeq(s, 2, Len(s)))

\* re.sub(r'[^\w]', '', s)
RECURSIVE KeepWord(_)
KeepWord(s) ==
  IF s = "" THEN ""
  ELSE (IF IsWordChar(CharAt(s, 1)) THEN CharAt(s, 1) ELSE "")
         \o KeepWord(SubSeq(s, 2, Len(s)))

\* re.sub(r'[^\d]', '', s)
RECURSIVE KeepDigits(_)
KeepDigits(s) ==
  IF s = "" THEN ""
  ELSE (IF IsDigit(CharAt(s, 1)) THEN CharAt(s, 1) ELSE "")
         \o KeepDigits(SubSeq(s, 2, Len(s)))

\* s[:n]
Prefix(s, n) == SubSeq(s, 1, IF Len(s) < n THEN Len(s) ELSE n)

\* re.match(r'\d{4}-\d{2}-\d{2}', s) is not None
MatchesIsoDate(s) ==
  /\ Len(s) >= 10
  /\ \A i \in {1, 2, 3, 4, 6, 7, 9, 10} : IsDigit(CharAt(s, i))
  /\ CharAt(s, 5) = "-"
  /\ CharAt(s, 8) = "-"

\* sub in s
Contains(s, sub) ==
  \E i \in 1..(Len(s) - Len(sub) + 1) : SubSeq(s, i, i + Len(sub) - 1) = sub

\* s.count(sub), from position i on: occurrences found left to right, the
\* search resuming after the end of each match
RECURSIVE CountFrom(_, _, _)
CountFrom(s, sub, i) ==
  LET at == { k \in i..(Len(s) - Len(sub) + 1) : SubSeq(s, k, k + Len(sub) - 1) = sub }
  IN  IF at = {} THEN 0
      ELSE 1 + CountFrom(s, sub, (CHOOSE k \in at : \A j \in at : k <= j) + Len(sub))

Count(s, sub) == CountFrom(s, sub, 1)

(***************************************************************************)
(* The clock: datetime.now() at tick n                                     *)
(***************************************************************************)
Digit(n) == CharAt(DigitAlphabet, n + 1)

\* datetime.now().isoformat()
isoformat(n) == "2024-06-01T12:00:0" \o Digit(n)

\* datetime.now().strftime('%Y%m%d_%H%M%S')
strftime(n) == "20240601_12000" \o Digit(n)

(***************************************************************************)
(* AIOrchestrator: the extraction schema                                   *)
(***************************************************************************)
\* self.mna_schema as __init__ builds it, at tick 0
InitSchema ==
  [deal_summary |->
     [deal_name |-> Str(""), deal_type |-> Str(""), target_company |-> Str(""),
      buyer |-> Str(""), seller |-> Str(""), country |-> Str(""),
      announcement_date |-> Str(""), signing_date |-> Str(""),
      closing_date |-> Str(""), deal_size_usd |-> Str(""),
      currency |-> Str(""), status |-> Str("")],
   financials |->
     [revenue |-> Str(""), ebitda |-> Str(""), enterprise_value |-> Str(""),
      ev_ebitda_multiple |-> Str(""), debt_assumed |-> Str(""),
      other_key_metrics |-> Str("")],
   advisors |->
     [buy_side_advisor |-> Str(""), sell_side_advisor |-> Str(""),
      legal_counsel_buyer |-> Str(""), legal_counsel_seller |-> Str(""),
      other_advisors |-> Str("")],
   power_plant_details |->
     [project_name |-> Str(""), location |-> Str(""), capacity_mw |-> Str(""),
      technology_type |-> Str(""), cod |-> Str("")],
   metadata |->
     [deal_id |-> Str(""), source_file_name |-> Str(""),
      date_processed |-> Str(isoformat(0)), extraction_confidence |-> Str("")]]

Sections == DOMAIN InitSchema
SchemaFields(s) == DOMAIN InitSchema[s]

\* the two metadata fields process_document computes itself
ComputedFields == {<<"metadata", "deal_id">>, <<"metadata", "date_processed">>}

(***************************************************************************)
(* Dictionaries and aliasing.  dict.copy() copies the top-level mapping    *)
(* only: the copy and the original hold the same section objects, so a     *)
(* write to a section through the copy is a write to the original's        *)
(* section.  A call works on [rec, schema, aliased]: the record it builds, *)
(* self.mna_schema, and the sections whose object both share.              *)
(***************************************************************************)
\* d[f] = v
Put(d, f, v) == [k \in (DOMAIN d) \cup {f} |-> IF k = f THEN v ELSE d[k]]

\* self.mna_schema.copy()
DictCopy(schema) == [rec |-> schema, schema |-> schema, aliased |-> DOMAIN schema]

\* the record's sections become newrec; shared section objects change with it
Sync(st, newrec) ==
  [rec     |-> newrec,
   schema  |-> [s \in DOMAIN st.schema |->
                  IF s \in st.aliased THEN newrec[s] ELSE st.schema[s]],
   aliased |-> st.aliased]

\* cleaned_data[s][f] = v
SetField(st, s, f, v) == Sync(st, [st.rec EXCEPT ![s] = Put(@, f, v)])

(***************************************************************************)
(* Model responses.  kind says what response.choices[0].message.content    *)
(* is; obj is the JSON object of an "object" response: a mapping from      *)
(* section name to [isdict, fields].                                       *)
(***************************************************************************)
Absent == [t |-> "absent", v |-> ""]

OptField(name, x) == IF x = Absent THEN <<>> ELSE name :> x
OptSection(name, fields) ==
  IF DOMAIN fields = {} THEN <<>> ELSE name :> [isdict |-> TRUE, fields |-> fields]

TargetValues  == {Absent, Str("Acme Power Co."), Str(" N/A ")}
DateValues    == {Absent, Str("2024-03-15")}
RevenueValues == {Absent, Str("$1,234.56M")}
SourceValues  == {Absent, Str("deal.pdf")}

\* a JSON object with the given fields; extra adds a field and a section the
\* schema does not have, and a section that is not an object
ObjectOf(target, date, revenue, source, extra) ==
     OptSection("deal_summary",
                OptField("target_company", target) @@ OptField("announcement_date", date)
                  @@ (IF extra THEN "notes" :> Str("confidential") ELSE <<>>))
  @@ OptSection("financials", OptField("revenue", revenue))
  @@ OptSection("metadata", OptField("source_file_name", source))
  @@ (IF extra
        THEN ("summary" :> [isdict |-> TRUE, fields |-> ("text" :> Str("n/a"))])
               @@ ("advisors" :> [isdict |-> FALSE, fields |-> <<>>])
        ELSE <<>>)

Objects ==
  { ObjectOf(tg, d, r, sf, x) :
      tg \in TargetValues, d \in DateValues, r \in RevenueValues,
      sf \in SourceValues, x \in BOOLEAN }

\* api_error : the completion call raises
\* no_content: the message content is None
\* object    : the text has a {...} span that parses to obj
\* bad_span  : the text has a {...} span that is not valid JSON
\* free_text : no {...} span and the text is not valid JSON
\* scalar    : no {...} span and the text is a JSON number
OtherKinds == {"api_error", "no_content", "bad_span", "free_text", "scalar"}

Responses ==
  { [kind |-> "object", obj |-> o] : o \in Objects }
    \cup { [kind |-> k, obj |-> <<>>] : k \in OtherKinds }

\* str(e) of the exception a response leads to
ErrorText(kind) ==
  CASE kind = "api_error"  -> "Connection error."
    [] kind = "no_content" -> "expected string or bytes-like object, got 'NoneType'"
    [] kind = "scalar"     -> "argument of type 'int' is not iterable"
    [] OTHER               -> ""

(***************************************************************************)
(* AIOrchestrator: parse, merge and clean                                  *)
(***************************************************************************)
\* a dict of section dicts seen as parsed data
AsData(schema) == [s \in DOMAIN schema |-> [isdict |-> TRUE, fields |-> schema[s]]]

\* _parse_ai_response: the parsed data, or the exception that leaves the method.
\* json.JSONDecodeError is caught and answered with self.mna_schema.copy();
\* the TypeError of re.search on None is not caught here.
_parse_ai_response(schema, r) ==
  CASE r.kind = "object"     -> [raised |-> FALSE, isdict |-> TRUE,  secs |-> r.obj]
    [] r.kind = "scalar"     -> [raised |-> FALSE, isdict |-> FALSE, secs |-> <<>>]
    [] r.kind = "no_content" -> [raised |-> TRUE,  isdict |-> FALSE, secs |-> <<>>]
    [] OTHER                 -> [raised |-> FALSE, isdict |-> TRUE,  secs |-> AsData(schema)]

\* section in data and isinstance(data[section], dict) and field in data[section]
HasField(data, s, f) ==
  /\ s \in DOMAIN data.secs
  /\ data.secs[s].isdict
  /\ f \in DOMAIN data.secs[s].fields

\* CleanValue without value.strip()
CleanValueUnstripped(x) ==
  IF x.t = "str"
    THEN IF Lower(x.v) \in {"", "n/a", "null", "none"} THEN Str("") ELSE x
    ELSE x

\* the cleaning of one copied value: strip, and collapse the sentinels
CleanValue(x) ==
  IF x.t = "str"
    THEN LET stripped == Strip(x.v)
         IN  IF Lower(stripped) \in {"", "n/a", "null", "none"}
               THEN Str("") ELSE Str(stripped)
    ELSE x

\* the merge loop of _validate_and_clean_data
MergeData(st, data) ==
  Sync(st, [s \in DOMAIN st.rec |->
              [f \in DOMAIN st.rec[s] |->
                 IF HasField(data, s, f)
                   THEN CleanValue(data.secs[s].fields[f])
                   ELSE st.rec[s][f]]])

date_fields ==
  {<<"deal_summary", "announcement_date">>, <<"deal_summary", "signing_date">>,
   <<"deal_summary", "closing_date">>, <<"power_plant_details", "cod">>}

\* ValidDate blanking every text that does not start with YYYY-MM-DD
ValidDateStrict(x) ==
  IF Truthy(x) /\ x # Str("N/A")
    THEN (IF x.t = "str" /\ MatchesIsoDate(x.v) THEN x ELSE Str(""))
    ELSE x

\* one date field: re.match raises TypeError on a value that is not a string,
\* the bare except then blanks the field; a string is left as it is
ValidDate(x) ==
  IF Truthy(x) /\ x # Str("N/A")
    THEN (IF x.t = "str" THEN x ELSE Str(""))
    ELSE x

_validate_dates(st) ==
  Sync(st, [s \in DOMAIN st.rec |->
              [f \in DOMAIN st.rec[s] |->
                 IF <<s, f>> \in date_fields THEN ValidDate(st.rec[s][f])
                                            ELSE st.rec[s][f]]])

monetary_fields ==
  {<<"deal_summary", "deal_size_usd">>, <<"financials", "revenue">>,
   <<"financials", "ebitda">>, <<"financials", "enterprise_value">>,
   <<"financials", "debt_assumed">>}

\* one monetary field: re.sub(r'[^\d.]', '', str(value))
ValidMoney(x) ==
  IF Truthy(x) /\ x # Str("N/A") THEN Str(KeepNumeric(x.v)) ELSE x

_validate_monetary_values(st) ==
  Sync(st, [s \in DOMAIN st.rec |->
              [f \in DOMAIN st.rec[s] |->
                 IF <<s, f>> \in monetary_fields THEN ValidMoney(st.rec[s][f])
                                                ELSE st.rec[s][f]]])

\* cleaned_data = self.mna_schema.copy(), then merge, dates, monetary values
_validate_and_clean_data(schema, data) ==
  _validate_monetary_values(_validate_dates(MergeData(DictCopy(schema), data)))

\* _generate_deal_id without the [:10] on the target
_generate_deal_id_untruncated(rec, n) ==
  LET target == rec["deal_summary"]["target_company"]
      date   == rec["deal_summary"]["announcement_date"]
  IN  IF Truthy(target) /\ target.t = "str" /\ date.t = "str"
        THEN "DEAL_" \o KeepWord(target.v) \o "_" \o Prefix(KeepDigits(date.v), 8)
        ELSE "DEAL_" \o strftime(n)

\* _generate_deal_id at tick n; re.sub on a value that is not a string raises
\* and the bare except answers with the timestamp
_generate_deal_id(rec, n) ==
  LET target == rec["deal_summary"]["target_company"]
      date   == rec["deal_summary"]["announcement_date"]
  IN  IF Truthy(target)
        THEN IF target.t = "str" /\ date.t = "str"
               THEN "DEAL_" \o Prefix(KeepWord(target.v), 10) \o "_"
                      \o Prefix(KeepDigits(date.v), 8)
               ELSE "DEAL_" \o strftime(n)
        ELSE "DEAL_" \o strftime(n)

\* the except branch of process_document
ErrorRecord(schema, text) ==
  LET st == SetField(DictCopy(schema), "metadata", "extraction_error", Str(text))
  IN  [schema |-> st.schema, ret |-> [kind |-> "record", rec |-> st.rec]]

\* process_document at tick n with model response r: the schema it leaves
\* behind and what the caller gets
process_document(schema, r, n) ==
  LET data == _parse_ai_response(schema, r)
  IN  IF r.kind = "api_error" \/ data.raised \/ ~data.isdict
        THEN ErrorRecord(schema, ErrorText(r.kind))
        ELSE LET cleaned == _validate_and_clean_data(schema, data)
                 stamped == SetField(cleaned, "metadata", "date_processed",
                                     Str(isoformat(n)))
                 final   == SetField(stamped, "metadata", "deal_id",
                                     Str(_generate_deal_id(stamped.rec, n)))
             IN  [schema |-> final.schema,
                  ret    |-> [kind |-> "record", rec |-> final.rec]]

(***************************************************************************)
(* The orchestrator as a state machine                                     *)
(***************************************************************************)
NoResponse == [kind |-> "none", obj |-> <<>>]
NoReturn   == [kind |-> "none", rec |-> <<>>]
NoExport   == [raised |-> FALSE, val |-> ""]
NoExporter == [pc |-> "idle", section |-> 1, data |-> <<>>, next_row |-> 0]
NoUpload   == [status |-> 0]
NoAnswer   == [status |-> 0]
NoStages   == [reached |-> FALSE, data |-> <<>>, merged |-> <<>>, dated |-> <<>>,
               cleaned |-> <<>>]

\* the local values of process_document(schema, r, n) when it gets as far as
\* _validate_and_clean_data: the parsed data, cleaned_data after the merge
\* loop, after _validate_dates, and as _validate_and_clean_data returns it
StagesOf(schema, r) ==
  LET data == _parse_ai_response(schema, r)
  IN  IF r.kind = "api_error" \/ data.raised \/ ~data.isdict
        THEN NoStages
        ELSE LET merged == MergeData(DictCopy(schema), data)
                 dated  == _validate_dates(merged)
             IN  [reached |-> TRUE,
                  data    |-> data.secs,
                  merged  |-> merged.rec,
                  dated   |-> dated.rec,
                  cleaned |-> _validate_monetary_values(dated).rec]

\* the other components as the module-level constructors of main.py leave
\* them: a writer with its credentials, an empty spreadsheet, no OCR client
InitSheetsAndUpload ==
  /\ writer = [gc |-> TRUE, spreadsheet |-> TRUE]
  /\ sheets = <<>>
  /\ exportCount = 0
  /\ exportResult = NoExport
  /\ exporters = [e \in {1, 2} |-> NoExporter]
  /\ vision_client = FALSE
  /\ uploadCount = 0
  /\ upload = NoUpload
  /\ exportAnswer = NoAnswer

Init ==
  /\ mna_schema = InitSchema
  /\ now = 0
  /\ lastResponse = NoResponse
  /\ returned = NoReturn
  /\ stages = NoStages
  /\ clsInput = Str("")
  /\ clsOp = "none"
  /\ clsResult = [raised |-> FALSE, val |-> ""]
  /\ InitSheetsAndUpload

\* one call of process_document with a model response of the set R; the clock
\* has moved on since the last call
ProcessDocumentFrom(R) ==
  /\ now < MaxCalls
  /\ \E r \in R :
       LET out == process_document(mna_schema, r, now + 1)
       IN  /\ mna_schema' = out.schema
           /\ returned' = out.ret
           /\ lastResponse' = r
           /\ stages' = StagesOf(mna_schema, r)
  /\ now' = now + 1
  /\ UNCHANGED <<classifierVars, sheetVars, uploadVars>>

ProcessDocument == ProcessDocumentFrom(Responses)

Next == ProcessDocument

Spec == Init /\ [][Next]_vars

(***************************************************************************)
(* Extraction from a wider range of model responses: complete objects with *)
(* string values, and objects whose values are not strings                 *)
(***************************************************************************)
\* the JSON object with the entries <<section, field, value>>
ObjectFrom(entries) ==
  [s \in {e[1] : e \in entries} |->
     [isdict |-> TRUE,
      fields |-> [f \in {e[2] : e \in {x \in entries : x[1] = s}} |->
                    (CHOOSE e \in entries : e[1] = s /\ e[2] = f)[3]]]]

\* the text a complete response gives a field unless said otherwise
BaseText(s, f) ==
  CASE <<s, f>> \in monetary_fields -> " 100 "
    [] <<s, f>> \in date_fields     -> "2024-01-31"
    [] OTHER                        -> "  " \o f \o "\n"

\* the JSON object that has every section and field of the schema, with text
\* values, those of entries where it names the field
CompleteObject(entries) ==
  [s \in Sections |->
     [isdict |-> TRUE,
      fields |-> [f \in SchemaFields(s) |->
                    IF \E e \in entries : e[1] = s /\ e[2] = f
                      THEN (CHOOSE e \in entries : e[1] = s /\ e[2] = f)[3]
                      ELSE Str(BaseText(s, f))]]]

CompleteObjects ==
  { CompleteObject(entries) : entries \in
      { {},
        {<<"deal_summary", "target_company", Str("Acme Power Co.")>>,
         <<"deal_summary", "announcement_date", Str("2024-03-15")>>,
         <<"financials", "revenue", Str("$1,234.56M")>>},
        {<<"deal_summary", "target_company", Str(" N/A ")>>,
         <<"deal_summary", "announcement_date", Str("15 March 2024")>>,
         <<"financials", "revenue", Str("N/A")>>,
         <<"advisors", "other_advisors", Str("None")>>},
        {<<"deal_summary", "target_company", Str("Solar_Farm #12 Holdings")>>,
         <<"deal_summary", "announcement_date", Str("2024-03-15T10:00:00Z 99")>>,
         <<"deal_summary", "deal_size_usd", Str("approx. USD")>>,
         <<"financials", "ebitda", Str("-5")>>,
         <<"power_plant_details", "cod", Str("Q3 2025")>>},
        {<<"deal_summary", "target_company", Str("!!!")>>,
         <<"deal_summary", "announcement_date", Str("null")>>,
         <<"financials", "debt_assumed", Str("")>>} } }

PartialObjects ==
  { ObjectFrom(entries) : entries \in
      { {},
        {<<"deal_summary", "target_company", Str("Acme Power Co.")>>,
         <<"deal_summary", "announcement_date", Str("2024-03-15")>>},
        {<<"deal_summary", "target_company", Str("Acme Power Company")>>,
         <<"deal_summary", "announcement_date", Str("2024-03-15 (expected)")>>},
        {<<"deal_summary", "target_company", Str("Acme Power Co.")>>,
         <<"deal_summary", "announcement_date", PyNone>>},
        {<<"deal_summary", "target_company", Num("42")>>},
        {<<"deal_summary", "announcement_date", Num("20240315")>>,
         <<"deal_summary", "signing_date", PyNone>>,
         <<"power_plant_details", "cod", PyList("['Q3', 2025]")>>},
        {<<"financials", "revenue", PyNone>>,
         <<"financials", "ebitda", Num("0")>>,
         <<"financials", "enterprise_value", Num("1234.5")>>},
        {<<"advisors", "other_advisors", PyList("['A', 'B']")>>,
         <<"metadata", "deal_id", Str("D-1")>>,
         <<"metadata", "date_processed", Str("yesterday")>>} } }

RichResponses ==
  { [kind |-> "object", obj |-> o] : o \in CompleteObjects \cup PartialObjects }
    \cup { [kind |-> k, obj |-> <<>>] : k \in {"api_error", "free_text"} }

ExtractDocument == ProcessDocumentFrom(RichResponses)

NextExtract == ExtractDocument

SpecExtract == Init /\ [][NextExtract]_vars

(***************************************************************************)
(* DocumentClassifier                                                      *)
(***************************************************************************)
\* the keys of self.patterns in insertion order, which is the order in which
\* a dict is iterated
LabelOrder == <<"press_release", "quarterly_report", "annual_report", "investor_deck">>
Labels == {LabelOrder[i] : i \in 1..Len(LabelOrder)}

\* the document types the API announces
document_types ==
  {"press_release", "quarterly_report", "annual_report", "investor_deck", "other"}

\* self.patterns
patterns ==
  [press_release |->
     [keywords |-> <<"press release", "announces", "acquisition", "merger",
                     "transaction", "closing", "signing", "agreement",
                     "forward-looking statements", "safe harbor">>,
      phrases  |-> <<"for immediate release", "announced today",
                     "pleased to announce", "has agreed to acquire",
                     "has completed the acquisition">>],
   quarterly_report |->
     [keywords |-> <<"quarterly report", "q1", "q2", "q3", "q4",
                     "quarterly results", "earnings", "fiscal quarter",
                     "three months ended", "quarterly financial">>,
      phrases  |-> <<"quarterly report", "financial results",
                     "quarterly earnings", "fiscal quarter ended">>],
   annual_report |->
     [keywords |-> <<"annual report", "form 10-k", "fiscal year",
                     "annual results", "yearly results", "12 months ended",
                     "annual financial", "year ended">>,
      phrases  |-> <<"annual report", "fiscal year ended",
                     "year ended december", "twelve months ended">>],
   investor_deck |->
     [keywords |-> <<"investor presentation", "company overview",
                     "investment highlights", "business strategy",
                     "market opportunity", "financial projections",
                     "slide", "presentation">>,
      phrases  |-> <<"investor presentation", "company overview",
                     "investment thesis", "business highlights">>]]

\* keyword.lower() and phrase.lower() of every term of self.patterns
patterns_lower ==
  [l \in Labels |->
     [keywords |-> [i \in 1..Len(patterns[l].keywords) |-> Lower(patterns[l].keywords[i])],
      phrases  |-> [i \in 1..Len(patterns[l].phrases)  |-> Lower(patterns[l].phrases[i])]]]

\* sum of text_lower.count(term) over terms[i..]
RECURSIVE CountAll(_, _, _)
CountAll(text_lower, terms, i) ==
  IF i > Len(terms) THEN 0
  ELSE Count(text_lower, terms[i]) + CountAll(text_lower, terms, i + 1)

\* Score with phrases weighing no more than keywords
ScoreUnweighted(text_lower, doc_type) ==
    CountAll(text_lower, patterns_lower[doc_type].keywords, 1)
  + CountAll(text_lower, patterns_lower[doc_type].phrases, 1)

\* the score of one document type: keywords weigh 1, phrases 2
Score(text_lower, doc_type) ==
    CountAll(text_lower, patterns_lower[doc_type].keywords, 1) * 1
  + CountAll(text_lower, patterns_lower[doc_type].phrases, 1) * 2

\* the scores dict of the scoring loop
Scores(text) ==
  LET text_lower == Lower(text)
  IN  [doc_type \in Labels |-> Score(text_lower, doc_type)]

\* max(scores.values())
MaxScore(scores) == CHOOSE m \in {scores[l] : l \in Labels} : \A l \in Labels : scores[l] <= m

\* MaxKey with the comparison turned into >=: the last maximal key wins
RECURSIVE MaxKeyLastWins(_, _, _)
MaxKeyLastWins(scores, i, best) ==
  IF i > Len(LabelOrder) THEN best
  ELSE MaxKeyLastWins(scores, i + 1,
                      IF scores[LabelOrder[i]] >= scores[best] THEN LabelOrder[i] ELSE best)

\* max(scores, key=scores.get): walks the keys in order from LabelOrder[i] on
\* and keeps a key only when its score is greater than the best so far
RECURSIVE MaxKey(_, _, _)
MaxKey(scores, i, best) ==
  IF i > Len(LabelOrder) THEN best
  ELSE MaxKey(scores, i + 1,
              IF scores[LabelOrder[i]] > scores[best] THEN LabelOrder[i] ELSE best)

Returns(x) == [raised |-> FALSE, val |-> x]
Raises(e)  == [raised |-> TRUE,  val |-> e]

\* classify_document without the test that the best score is positive
classify_document_unguarded(x) ==
  IF x.t # "str" THEN [raised |-> FALSE, val |-> "other"]
  ELSE [raised |-> FALSE, val |-> MaxKey(Scores(x.v), 2, LabelOrder[1])]

\* classify_document; text.lower() on a value that is not a string raises
\* AttributeError, which the except clause answers with "other"
classify_document(x) ==
  IF x.t # "str" THEN Returns("other")
  ELSE LET scores == Scores(x.v)
       IN  IF MaxScore(scores) > 0
             THEN Returns(MaxKey(scores, 2, LabelOrder[1]))
             ELSE Returns("other")

\* a confidence value as the fraction n/d
Frac(n, d) == [n |-> n, d |-> d]

\* get_classification_confidence dividing by the best score, not the total
get_classification_confidence_by_max(x) ==
  IF x.t # "str" THEN [raised |-> FALSE, val |-> <<>>]
  ELSE LET scores == Scores(x.v)
       IN  IF MaxScore(scores) > 0
             THEN [raised |-> FALSE,
                   val |-> [l \in Labels |-> [n |-> scores[l] * 100, d |-> MaxScore(scores)]]]
             ELSE [raised |-> FALSE, val |-> [l \in Labels |-> [n |-> scores[l], d |-> 1]]]

\* get_classification_confidence: scores divided by their total, times 100,
\* when the total is positive; the scores as they are otherwise
get_classification_confidence(x) ==
  IF x.t # "str" THEN Returns(<<>>)
  ELSE LET scores == Scores(x.v)
           total_score == scores[LabelOrder[1]] + scores[LabelOrder[2]]
                            + scores[LabelOrder[3]] + scores[LabelOrder[4]]
       IN  IF total_score > 0
             THEN Returns([l \in Labels |-> Frac(scores[l] * 100, total_score)])
             ELSE Returns([l \in Labels |-> Frac(scores[l], 1)])

\* the terms[i..] whose lowercase form occurs in text_lower, in list order
RECURSIVE Found(_, _, _, _)
Found(text_lower, terms, lowered, i) ==
  IF i > Len(terms) THEN <<>>
  ELSE (IF Contains(text_lower, lowered[i]) THEN <<terms[i]>> ELSE <<>>)
         \o Found(text_lower, terms, lowered, i + 1)

\* extract_key_indicators: only document types with an indicator get a key
extract_key_indicators(x) ==
  IF x.t # "str" THEN Returns(<<>>)
  ELSE LET text_lower == Lower(x.v)
           found == [l \in Labels |->
                       Found(text_lower, patterns[l].keywords,
                             patterns_lower[l].keywords, 1)
                         \o Found(text_lower, patterns[l].phrases,
                                  patterns_lower[l].phrases, 1)]
       IN  Returns([l \in {k \in Labels : found[k] # <<>>} |-> found[l]])

financial_keywords ==
  <<"revenue", "ebitda", "earnings", "profit", "loss",
    "financial results", "income statement", "balance sheet",
    "cash flow", "financial performance", "million", "billion">>

mna_keywords ==
  <<"acquisition", "merger", "buyout", "transaction", "deal",
    "acquire", "purchase", "buy", "sell", "divestiture",
    "target", "buyer", "seller", "closing", "completion">>

\* sum(1 for keyword in terms[i..] if keyword in text_lower)
RECURSIVE CountPresent(_, _, _)
CountPresent(text_lower, terms, i) ==
  IF i > Len(terms) THEN 0
  ELSE (IF Contains(text_lower, terms[i]) THEN 1 ELSE 0)
         + CountPresent(text_lower, terms, i + 1)

\* is_financial_document summing the occurrences of the keywords
is_financial_document_by_count(x) ==
  IF x.t # "str" THEN [raised |-> TRUE, val |-> "AttributeError"]
  ELSE [raised |-> FALSE, val |-> CountAll(Lower(x.v), financial_keywords, 1) >= 3]

\* is_financial_document has no try/except: the AttributeError of text.lower()
\* leaves the method
is_financial_document(x) ==
  IF x.t # "str" THEN Raises("AttributeError")
  ELSE Returns(CountPresent(Lower(x.v), financial_keywords, 1) >= 3)

\* is_mna_document has no try/except either
is_mna_document(x) ==
  IF x.t # "str" THEN Raises("AttributeError")
  ELSE Returns(CountPresent(Lower(x.v), mna_keywords, 1) >= 2)

(***************************************************************************)
(* The classifier on one input                                             *)
(***************************************************************************)
\* pieces of document text
Fragments ==
  {"Merger ", "q1 ", "Annual Report ", "slide ", "Revenue and EBITDA ",
   "net loss ", "earnings ", "the deal "}

\* the texts of n fragments
RECURSIVE TextsOf(_)
TextsOf(n) ==
  IF n = 0 THEN {""} ELSE {t \o f : t \in TextsOf(n - 1), f \in Fragments}

Texts == UNION {TextsOf(n) : n \in 0..MaxWords}

\* a classifier argument: a text, or None
ClassifierInputs == {Str(t) : t \in Texts} \cup {PyNone}

InitClassifier ==
  /\ mna_schema = InitSchema
  /\ now = 0
  /\ lastResponse = NoResponse
  /\ returned = NoReturn
  /\ stages = NoStages
  /\ clsInput \in ClassifierInputs
  /\ clsOp = "none"
  /\ clsResult = Returns("")
  /\ InitSheetsAndUpload

ClassifierCall(op, result) ==
  /\ clsOp' = op
  /\ clsResult' = result
  /\ UNCHANGED <<clsInput, orchestratorVars, sheetVars, uploadVars>>

ClassifyDocument ==
  ClassifierCall("classify_document", classify_document(clsInput))

GetClassificationConfidence ==
  ClassifierCall("get_classification_confidence", get_classification_confidence(clsInput))

ExtractKeyIndicators ==
  ClassifierCall("extract_key_indicators", extract_key_indicators(clsInput))

IsFinancialDocument ==
  ClassifierCall("is_financial_document", is_financial_document(clsInput))

IsMnaDocument ==
  ClassifierCall("is_mna_document", is_mna_document(clsInput))

NextClassifier ==
  \/ ClassifyDocument
  \/ GetClassificationConfidence
  \/ ExtractKeyIndicators
  \/ IsFinancialDocument
  \/ IsMnaDocument

SpecClassifier == InitClassifier /\ [][NextClassifier]_vars

(***************************************************************************)
(* SheetWriter (sheet_generator.py) and the worksheets it writes to        *)
(*                                                                         *)
(* A worksheet is the sequence of its rows down to the last row ever       *)
(* written; the grid below is blank.  A row keeps its cells and, for the   *)
(* properties only, the number of the export that wrote it (0 for the      *)
(* header row).                                                            *)
(***************************************************************************)
RowOf(cells, n) == [cells |-> cells, export |-> n]

Blank(cell) == cell.t = "none" \/ (cell.t = "str" /\ cell.v = "")
BlankRow(row) == \A i \in 1..Len(row.cells) : Blank(row.cells[i])

\* the largest number of S, 0 when there is none
Last(S) == IF S = {} THEN 0 ELSE CHOOSE i \in S : \A j \in S : j <= i

\* worksheet.get_all_values(): the rows down to the last populated one; the
\* store leaves out the blank rows at the end
get_all_values(rows) ==
  SubSeq(rows, 1, Last({ i \in 1..Len(rows) : ~BlankRow(rows[i]) }))

\* worksheet.row_values(i): the cells of row i without the blank ones at the end
row_values(rows, i) ==
  IF i > Len(rows) THEN <<>>
  ELSE SubSeq(rows[i].cells, 1,
              Last({ k \in 1..Len(rows[i].cells) : ~Blank(rows[i].cells[k]) }))

\* the rows of the worksheet down to row n, blank rows added where it is shorter
PadTo(rows, n) ==
  rows \o [i \in 1..(IF n > Len(rows) THEN n - Len(rows) ELSE 0) |-> RowOf(<<>>, 0)]

\* a store that writes the values into row index and moves nothing
insert_row_overwriting(rows, row, index) ==
  [PadTo(rows, index) EXCEPT ![index] = row]

\* worksheet.insert_row(values, index): a new row at index; the rows from
\* index on move one down
insert_row(rows, row, index) ==
  SubSeq(PadTo(rows, index - 1), 1, index - 1) \o <<row>>
    \o SubSeq(rows, index, Len(rows))

\* worksheets_config of _ensure_worksheets_exist
worksheets_config ==
     ("Deal Summary" :>
      <<"Deal ID", "Deal Name", "Deal Type", "Target Company", "Buyer", "Seller",
        "Country", "Announcement Date", "Signing Date", "Closing Date",
        "Deal Size (USD)", "Currency", "Status">>)
  @@ ("Financials" :>
      <<"Deal ID", "Revenue", "EBITDA", "Enterprise Value", "EV/EBITDA Multiple",
        "Debt Assumed", "Other Key Metrics">>)
  @@ ("Advisors" :>
      <<"Deal ID", "Buy-Side Advisor", "Sell-Side Advisor", "Legal Counsel (Buyer)",
        "Legal Counsel (Seller)", "Other Advisors">>)
  @@ ("Power Plant Details" :>
      <<"Deal ID", "Project Name", "Location", "Capacity (MW)", "Technology Type",
        "COD">>)
  @@ ("Metadata" :>
      <<"Deal ID", "Source File Name", "Date Processed", "Extraction Confidence",
        "QC Status", "QC Analyst", "QC Date">>)

HeaderRow(title) ==
  RowOf([i \in 1..Len(worksheets_config[title]) |-> Str(worksheets_config[title][i])], 0)

\* _ensure_worksheets_exist: a missing worksheet is added with its headers, a
\* worksheet whose first row is blank gets the headers inserted
_ensure_worksheets_exist(ss) ==
  [ t \in DOMAIN ss \cup DOMAIN worksheets_config |->
      IF t \notin DOMAIN worksheets_config THEN ss[t]
      ELSE IF t \notin DOMAIN ss THEN insert_row(<<>>, HeaderRow(t), 1)
      ELSE IF row_values(ss[t], 1) = <<>> THEN insert_row(ss[t], HeaderRow(t), 1)
      ELSE ss[t] ]

\* the sections in the order write_to_sheet writes them, and their worksheets
SectionOrder ==
  <<"deal_summary", "financials", "advisors", "power_plant_details", "metadata">>

worksheet_name ==
  [deal_summary |-> "Deal Summary", financials |-> "Financials",
   advisors |-> "Advisors", power_plant_details |-> "Power Plant Details",
   metadata |-> "Metadata"]

\* the keys row_data reads, in column order: _write_deal_summary,
\* _write_financials and _write_advisors
row_keys ==
  [deal_summary |->
     <<"deal_id", "deal_name", "deal_type", "target_company", "buyer", "seller",
       "country", "announcement_date", "signing_date", "closing_date",
       "deal_size_usd", "currency", "status">>,
   financials |->
     <<"deal_id", "revenue", "ebitda", "enterprise_value", "ev_ebitda_multiple",
       "debt_assumed", "other_key_metrics">>,
   advisors |->
     <<"deal_id", "buy_side_advisor", "sell_side_advisor", "legal_counsel_buyer",
       "legal_counsel_seller", "other_advisors">>]

\* the same for _write_power_plant_details and _write_metadata: one key for
\* each column of the worksheet
row_keys_rest ==
  [power_plant_details |->
     <<"deal_id", "project_name", "location", "capacity_mw", "technology_type",
       "cod">>,
   metadata |->
     <<"deal_id", "source_file_name", "date_processed", "extraction_confidence",
       "qc_status", "qc_analyst", "qc_date">>]

RowKeys == row_keys @@ row_keys_rest

\* dict.get(key, default)
Get(d, key, default) == IF key \in DOMAIN d THEN d[key] ELSE default

\* a section that carries the record's metadata.deal_id as its own deal_id
SectionWithDealId(data, s) ==
  ("deal_id" :> Get(Get(data, "metadata", <<>>), "deal_id", Str("")))
    @@ Get(data, s, <<>>)

\* data.get(section, {}) of write_to_sheet
SectionOf(data, s) == Get(data, s, <<>>)

\* row_data of a _write_ method: data.get(key, "") for each column
RowData(section, keys) ==
  [i \in 1..Len(keys) |-> Get(section, keys[i], Str(""))]

\* next_row = len(worksheet.get_all_values()) + 1
NextRow(rows) == Len(get_all_values(rows)) + 1

\* a _write_ method: the section's row goes to the next row of its worksheet
WriteSection(ss, s, data, n) ==
  LET t   == worksheet_name[s]
      row == RowOf(RowData(SectionOf(data, s), RowKeys[s]), n)
  IN  [ss EXCEPT ![t] = insert_row(@, row, NextRow(@))]

RECURSIVE WriteSections(_, _, _, _)
WriteSections(ss, i, data, n) ==
  IF i > Len(SectionOrder) THEN ss
  ELSE WriteSections(WriteSection(ss, SectionOrder[i], data, n), i + 1, data, n)

SheetUrl == "https://docs.google.com/spreadsheets/d/ID"
NotInitialized == "Google Sheets not properly initialized"

\* write_to_sheet(data) as export number n: the spreadsheet it leaves and
\* what the caller gets
write_to_sheet(w, ss, data, n) ==
  IF ~w.gc \/ ~w.spreadsheet
    THEN [sheets |-> ss, result |-> Raises(NotInitialized)]
    ELSE [sheets |-> WriteSections(_ensure_worksheets_exist(ss), 1, data, n),
          result |-> Returns(SheetUrl)]

(***************************************************************************)
(* Exports one after the other: the client sends back the record an        *)
(* extraction returned.                                                    *)
(***************************************************************************)
SheetResponses ==
  { [kind |-> "object", obj |-> ObjectOf(tg, Absent, r, Absent, FALSE)] :
      tg \in {Absent, Str("Acme Power Co.")}, r \in RevenueValues }
    \cup { [kind |-> "api_error", obj |-> <<>>] }

\* the writer with and without its credentials; a spreadsheet without the
\* worksheets, and one where "Deal Summary" is there but blank
Writers == { [gc |-> TRUE, spreadsheet |-> TRUE], [gc |-> FALSE, spreadsheet |-> FALSE] }
Spreadsheets == { <<>>, "Deal Summary" :> <<>> }

InitSheets ==
  /\ mna_schema = InitSchema
  /\ now = 0
  /\ lastResponse = NoResponse
  /\ returned = NoReturn
  /\ stages = NoStages
  /\ clsInput = Str("")
  /\ clsOp = "none"
  /\ clsResult = Returns("")
  /\ writer \in Writers
  /\ sheets \in Spreadsheets
  /\ exportCount = 0
  /\ exportResult = NoExport
  /\ exporters = [e \in {1, 2} |-> NoExporter]
  /\ vision_client = FALSE
  /\ uploadCount = 0
  /\ upload = NoUpload
  /\ exportAnswer = NoAnswer

SheetExtract == ProcessDocumentFrom(SheetResponses)

WriteToSheet ==
  /\ exportCount < MaxExports
  /\ returned.kind = "record"
  /\ LET out == write_to_sheet(writer, sheets, returned.rec, exportCount + 1)
     IN  /\ sheets' = out.sheets
         /\ exportResult' = out.result
         /\ exportCount' = IF out.result.raised THEN exportCount ELSE exportCount + 1
  /\ UNCHANGED <<writer, exporters, orchestratorVars, classifierVars, uploadVars>>

NextSheets ==
  \/ SheetExtract
  \/ WriteToSheet

SpecSheets == InitSheets /\ [][NextSheets]_vars

(***************************************************************************)
(* Two exports side by side.  Each write_to_sheet call is a sequence of    *)
(* steps: the check and _ensure_worksheets_exist, then for each section    *)
(* the read of the row count and the insertion of the row.                 *)
(***************************************************************************)
Exporters == {1, 2}

\* the records of a first extraction, as a client can send them
ExportRecords ==
  { process_document(InitSchema, r, 1).ret.rec : r \in SheetResponses }

InitConcurrent ==
  /\ mna_schema = InitSchema
  /\ now = 0
  /\ lastResponse = NoResponse
  /\ returned = NoReturn
  /\ stages = NoStages
  /\ clsInput = Str("")
  /\ clsOp = "none"
  /\ clsResult = Returns("")
  /\ writer = [gc |-> TRUE, spreadsheet |-> TRUE]
  /\ sheets = <<>>
  /\ exportCount = 0
  /\ exportResult = NoExport
  /\ exporters = [e \in Exporters |-> NoExporter]
  /\ vision_client = FALSE
  /\ uploadCount = 0
  /\ upload = NoUpload
  /\ exportAnswer = NoAnswer

\* write_to_sheet up to the first _write_ method
Begin(e) ==
  /\ exporters[e].pc = "idle"
  /\ \E data \in ExportRecords :
       exporters' = [exporters EXCEPT ![e] =
                       [pc |-> "read", section |-> 1, data |-> data, next_row |-> 0]]
  /\ sheets' = _ensure_worksheets_exist(sheets)
  /\ UNCHANGED <<writer, exportCount, exportResult,
                 orchestratorVars, classifierVars, uploadVars>>

\* next_row = len(worksheet.get_all_values()) + 1
ReadRowCount(e) ==
  /\ exporters[e].pc = "read"
  /\ exporters' = [exporters EXCEPT
                     ![e].pc = "insert",
                     ![e].next_row =
                        NextRow(sheets[worksheet_name[SectionOrder[exporters[e].section]]])]
  /\ UNCHANGED <<writer, sheets, exportCount, exportResult,
                 orchestratorVars, classifierVars, uploadVars>>

\* worksheet.insert_row(row_data, next_row), and on to the next section or
\* to the return
InsertRow(e) ==
  /\ exporters[e].pc = "insert"
  /\ LET x   == exporters[e]
         s   == SectionOrder[x.section]
         row == RowOf(RowData(SectionOf(x.data, s), RowKeys[s]), e)
     IN  /\ sheets' = [sheets EXCEPT ![worksheet_name[s]] = insert_row(@, row, x.next_row)]
         /\ exporters' = [exporters EXCEPT
                            ![e].pc = IF x.section = Len(SectionOrder) THEN "done" ELSE "read",
                            ![e].section = IF x.section = Len(SectionOrder)
                                             THEN x.section ELSE x.section + 1]
         /\ exportCount' = IF x.section = Len(SectionOrder)
                             THEN exportCount + 1 ELSE exportCount
         /\ exportResult' = IF x.section = Len(SectionOrder)
                              THEN Returns(SheetUrl) ELSE exportResult
  /\ UNCHANGED <<writer, orchestratorVars, classifierVars, uploadVars>>

NextConcurrent ==
  \E e \in Exporters :
    \/ Begin(e)
    \/ ReadRowCount(e)
    \/ InsertRow(e)

SpecConcurrent == InitConcurrent /\ [][NextConcurrent]_vars

(***************************************************************************)
(* DocumentProcessor (document_processor.py) and the upload endpoint       *)
(* (main.py).  A document is what each backend does with it: the text the  *)
(* backend has gathered when it stops, and whether it stops on an          *)
(* exception.                                                              *)
(***************************************************************************)
ShortText == "Merger Agreement\n"
LongText ==
  "Press Release\n\n  Acme Power Co. announces the acquisition of Beta Energy Ltd.  \n"
    \o "The transaction is valued at $1,234.56M and closes on 2024-03-15.\n"

Broken  == [raised |-> TRUE,  text |-> ""]
Gives(text) == [raised |-> FALSE, text |-> text]

Documents ==
  [plumber : {Broken, Gives(""), Gives(ShortText), Gives(LongText)},
   mupdf   : {Broken, Gives(ShortText), Gives(LongText)},
   ocr     : {Broken, Gives(LongText)}]

\* the three backends: each catches what its library raises and returns the
\* text it has so far
_extract_with_pdfplumber(doc) == doc.plumber.text
_extract_with_pymupdf(doc) == doc.mupdf.text
_extract_with_ocr(client, doc) == IF ~client THEN "" ELSE doc.ocr.text

\* str.split('\n')
RECURSIVE SplitLines(_)
SplitLines(s) ==
  LET at == { i \in 1..Len(s) : CharAt(s, i) = "\n" }
  IN  IF at = {} THEN <<s>>
      ELSE LET i == CHOOSE k \in at : \A j \in at : k <= j
           IN  <<SubSeq(s, 1, i - 1)>> \o SplitLines(SubSeq(s, i + 1, Len(s)))

\* the stripped lines that are not empty
RECURSIVE CleanedLines(_, _)
CleanedLines(lines, i) ==
  IF i > Len(lines) THEN <<>>
  ELSE (IF Strip(lines[i]) = "" THEN <<>> ELSE <<Strip(lines[i])>>)
         \o CleanedLines(lines, i + 1)

\* '\n'.join(lines)
RECURSIVE JoinLines(_, _)
JoinLines(lines, i) ==
  IF i > Len(lines) THEN ""
  ELSE lines[i] \o (IF i < Len(lines) THEN "\n" ELSE "") \o JoinLines(lines, i + 1)

\* _clean_text; the joined text has no empty line, so the loop that
\* collapses runs of newlines finds nothing to do
_clean_text(text) ==
  IF text = "" THEN "" ELSE JoinLines(CleanedLines(SplitLines(text), 1), 1)

\* extract_text: pdfplumber, then PyMuPDF and OCR while the text is shorter
\* than 100 characters
extract_text(client, doc) ==
  LET first  == _extract_with_pdfplumber(doc)
      second == IF Len(Strip(first)) < 100 THEN _extract_with_pymupdf(doc) ELSE first
      third  == IF Len(Strip(second)) < 100 /\ client
                  THEN _extract_with_ocr(client, doc) ELSE second
  IN  Returns(_clean_text(third))

\* str.endswith
EndsWith(s, suffix) ==
  Len(s) >= Len(suffix) /\ SubSeq(s, Len(s) - Len(suffix) + 1, Len(s)) = suffix

Filenames == {"deal.pdf", "deal.docx"}

UploadResponses ==
  { [kind |-> "object",
     obj |-> ObjectOf(Str("Acme Power Co."), Str("2024-03-15"), Absent, Absent, FALSE)],
    [kind |-> "api_error", obj |-> <<>>] }

NotRun == [raised |-> FALSE, val |-> "not run"]

\* the texts extract_text gives for the documents, and what
\* classifier.classify_document answers for each of them
ExtractedTexts == { extract_text(c, d).val : c \in BOOLEAN, d \in Documents }
Classified == [t \in ExtractedTexts |-> classify_document(Str(t))]

InitUpload ==
  /\ mna_schema = InitSchema
  /\ now = 0
  /\ lastResponse = NoResponse
  /\ returned = NoReturn
  /\ stages = NoStages
  /\ clsInput = Str("")
  /\ clsOp = "none"
  /\ clsResult = Returns("")
  /\ writer = [gc |-> TRUE, spreadsheet |-> TRUE]
  /\ sheets = <<>>
  /\ exportCount = 0
  /\ exportResult = NoExport
  /\ exporters = [e \in Exporters |-> NoExporter]
  /\ vision_client \in BOOLEAN
  /\ uploadCount = 0
  /\ upload = NoUpload
  /\ exportAnswer = NoAnswer

\* upload_document for a file that is no PDF: the HTTPException(400) is
\* raised inside the try block, and `except Exception` answers it with 500
RejectUpload(filename, doc) ==
  /\ upload' = [status |-> 500, filename |-> filename, document |-> doc,
                extracted |-> NotRun, classified |-> FALSE, doc_type |-> "",
                extracted_data |-> <<>>]
  /\ UNCHANGED orchestratorVars

\* upload_document for a PDF: extract_text, classify_document,
\* process_document, and the answer
ProcessUpload(filename, doc, r) ==
  LET text  == extract_text(vision_client, doc)
      label == Classified[text.val]
      out   == process_document(mna_schema, r, now + 1)
  IN  /\ upload' = [status |-> 200, filename |-> filename, document |-> doc,
                    extracted |-> text, classified |-> TRUE, doc_type |-> label.val,
                    extracted_data |-> out.ret.rec]
      /\ mna_schema' = out.schema
      /\ returned' = out.ret
      /\ lastResponse' = r
      /\ stages' = StagesOf(mna_schema, r)
      /\ now' = now + 1

UploadDocument ==
  /\ uploadCount < MaxUploads
  /\ \E filename \in Filenames, doc \in Documents, r \in UploadResponses :
       IF EndsWith(filename, ".pdf")
         THEN ProcessUpload(filename, doc, r)
         ELSE RejectUpload(filename, doc)
  /\ uploadCount' = uploadCount + 1
  /\ UNCHANGED <<vision_client, exportAnswer, classifierVars, sheetVars>>

NextUpload == UploadDocument

SpecUpload == InitUpload /\ [][NextUpload]_vars

(***************************************************************************)
(* The two endpoints together (main.py): a client uploads documents and    *)
(* sends export requests, with the record an upload answered as            *)
(* extracted_data or without that key.                                     *)
(***************************************************************************)
NoBody == [has_data |-> FALSE, extracted_data |-> <<>>]
BodyOf(rec) == [has_data |-> TRUE, extracted_data |-> rec]

\* the bodies a client can send now
ExportBodies ==
  {NoBody} \cup (IF upload.status = 200 THEN {BodyOf(upload.extracted_data)} ELSE {})

InitApi ==
  /\ mna_schema = InitSchema
  /\ now = 0
  /\ lastResponse = NoResponse
  /\ returned = NoReturn
  /\ stages = NoStages
  /\ clsInput = Str("")
  /\ clsOp = "none"
  /\ clsResult = Returns("")
  /\ writer \in Writers
  /\ sheets = <<>>
  /\ exportCount = 0
  /\ exportResult = NoExport
  /\ exporters = [e \in Exporters |-> NoExporter]
  /\ vision_client \in BOOLEAN
  /\ uploadCount = 0
  /\ upload = NoUpload
  /\ exportAnswer = NoAnswer

\* export_to_sheets for a body without extracted_data: the
\* HTTPException(400) is raised inside the try block, and `except Exception`
\* answers it with 500
RejectExport(body) ==
  /\ exportAnswer' = [status |-> 500, body |-> body, written |-> FALSE]
  /\ UNCHANGED <<sheets, exportCount, exportResult>>

\* export_to_sheets for a body with extracted_data: write_to_sheet, and 200
\* with the sheet URL, or 500 when write_to_sheet raises
ProcessExport(body) ==
  LET out == write_to_sheet(writer, sheets, body.extracted_data, exportCount + 1)
  IN  /\ exportAnswer' = [status |-> IF out.result.raised THEN 500 ELSE 200,
                          body |-> body, written |-> ~out.result.raised]
      /\ sheets' = out.sheets
      /\ exportResult' = out.result
      /\ exportCount' = IF out.result.raised THEN exportCount ELSE exportCount + 1

ExportToSheets ==
  /\ exportCount < MaxExports
  /\ \E body \in ExportBodies :
       IF body.has_data THEN ProcessExport(body) ELSE RejectExport(body)
  /\ UNCHANGED <<writer, exporters, vision_client, uploadCount, upload,
                 orchestratorVars, classifierVars>>

NextApi ==
  \/ UploadDocument
  \/ ExportToSheets

SpecApi == InitApi /\ [][NextApi]_vars

(***************************************************************************)
(* Properties of process_document                                          *)
(***************************************************************************)
\* the latest call went through parse and clean without an exception
NoException == lastResponse.kind \in {"object", "bad_span", "free_text"}

\* the latest call ended in the except branch
Failed == lastResponse.kind \in {"api_error", "no_content", "scalar"}

\* the schema fields the caller does not compute itself
PlainFields ==
  { sf \in UNION { {<<s, f>> : f \in SchemaFields(s)} : s \in Sections } :
      sf \notin ComputedFields }

\* the parsed object of the latest call has section s with field f
InResponse(s, f) ==
  /\ s \in DOMAIN lastResponse.obj
  /\ lastResponse.obj[s].isdict
  /\ f \in DOMAIN lastResponse.obj[s].fields

\* C1: in the record of a call whose response parsed to an object, every
\* schema field the object does not have is the empty string (deal_id and
\* date_processed apart), whatever the calls before it returned.
C1_AbsentFieldsAreEmpty ==
  (returned.kind = "record" /\ lastResponse.kind = "object")
    => \A sf \in PlainFields :
         ~InResponse(sf[1], sf[2]) => returned.rec[sf[1]][sf[2]] = Str("")

\* C2: self.mna_schema has, after any sequence of calls, the sections, field
\* names and default values it had right after construction.
C2_SchemaImmutable == mna_schema = InitSchema

\* C3: a record returned by a call in which no exception occurred has exactly
\* the five schema sections and in each exactly the schema's field names.
C3_ExactShape ==
  (returned.kind = "record" /\ NoException)
    => /\ DOMAIN returned.rec = Sections
       /\ \A s \in Sections : DOMAIN returned.rec[s] = SchemaFields(s)

\* C4: on a malformed response (not JSON, with or without a {...} span) the
\* call returns a record whose fields, deal_id and date_processed apart, are
\* all the empty string, whatever earlier calls extracted.
C4_MalformedGivesDefaults ==
  lastResponse.kind \in {"bad_span", "free_text"}
    => /\ returned.kind = "record"
       /\ \A sf \in PlainFields : returned.rec[sf[1]][sf[2]] = Str("")

\* C5: a call in which a step throws returns (never raises) a record with
\* every schema field at its default and metadata.extraction_error set to the
\* description of this call's error.
C5_FailureGivesDefaultsWithError ==
  Failed
    => /\ returned.kind = "record"
       /\ \A s \in Sections : \A f \in SchemaFields(s) :
            returned.rec[s][f] = InitSchema[s][f]
       /\ "extraction_error" \in DOMAIN returned.rec["metadata"]
       /\ returned.rec["metadata"]["extraction_error"]
            = Str(ErrorText(lastResponse.kind))

(***************************************************************************)
(* Properties of the classifier                                            *)
(***************************************************************************)
IsText == clsInput.t = "str"

\* the place of a document type in the fixed order
OrderOf(l) == CHOOSE i \in 1..Len(LabelOrder) : LabelOrder[i] = l

\* some keyword or phrase of some document type occurs in the text
AnyMatch(text) ==
  \E l \in Labels :
    \/ \E i \in 1..Len(patterns[l].keywords) :
         Contains(Lower(text), patterns[l].keywords[i])
    \/ \E i \in 1..Len(patterns[l].phrases) :
         Contains(Lower(text), patterns[l].phrases[i])

\* C6: classify_document returns the document type with the highest score,
\* the first in the order press_release, quarterly_report, annual_report,
\* investor_deck among those sharing the maximum, and returns other exactly
\* when all four scores are zero.
C6_HighestScoreFirstWins ==
  (clsOp = "classify_document" /\ IsText)
    => LET sc == Scores(clsInput.v)
           r  == clsResult.val
       IN  /\ ~clsResult.raised
           /\ (r = "other") <=> (\A l \in Labels : sc[l] = 0)
           /\ r # "other"
                => /\ r \in Labels
                   /\ \A l \in Labels : sc[l] <= sc[r]
                   /\ \A l \in Labels : sc[l] = sc[r] => OrderOf(r) <= OrderOf(l)

\* two document types share the best, positive score and the earlier one won
C6_Witness ==
  /\ clsOp = "classify_document"
  /\ IsText
  /\ clsResult.val = "quarterly_report"
  /\ LET sc == Scores(clsInput.v)
     IN  /\ sc["quarterly_report"] > 0
         /\ sc["investor_deck"] = sc["quarterly_report"]
         /\ sc["press_release"] < sc["quarterly_report"]

\* C7: classify_document returns one of the five document types for every
\* text, and other for the empty text.
C7_LabelIsOneOfFive ==
  (clsOp = "classify_document" /\ IsText)
    => /\ ~clsResult.raised
       /\ clsResult.val \in document_types
       /\ clsInput.v = "" => clsResult.val = "other"

C7_Witness ==
  /\ clsOp = "classify_document"
  /\ clsInput = Str("")
  /\ clsResult = Returns("other")

\* the values of a confidence mapping add up to 100
SumsTo100(m) ==
  /\ DOMAIN m = Labels
  /\ \A l \in Labels : m[l].d = m[LabelOrder[1]].d
  /\ m[LabelOrder[1]].n + m[LabelOrder[2]].n + m[LabelOrder[3]].n + m[LabelOrder[4]].n
       = 100 * m[LabelOrder[1]].d

\* C8 as stated: the confidence values sum to 100 when a keyword or phrase
\* matches the text, and the mapping is empty when none matches.
C8_EmptyWhenNoMatch ==
  (clsOp = "get_classification_confidence" /\ IsText)
    => /\ ~clsResult.raised
       /\ AnyMatch(clsInput.v) => SumsTo100(clsResult.val)
       /\ ~AnyMatch(clsInput.v) => DOMAIN clsResult.val = {}

\* C8 amended: the confidence values sum to 100 when a keyword or phrase
\* matches the text; when none matches the mapping has the four document
\* types, each with the value 0.
C8_ZerosWhenNoMatch ==
  (clsOp = "get_classification_confidence" /\ IsText)
    => /\ ~clsResult.raised
       /\ AnyMatch(clsInput.v) => SumsTo100(clsResult.val)
       /\ ~AnyMatch(clsInput.v)
            => /\ DOMAIN clsResult.val = Labels
               /\ \A l \in Labels : clsResult.val[l] = Frac(0, 1)

\* a text that matches two document types with different scores
C8_Witness ==
  /\ clsOp = "get_classification_confidence"
  /\ IsText
  /\ AnyMatch(clsInput.v)
  /\ clsResult.val["annual_report"].n > clsResult.val["press_release"].n
  /\ clsResult.val["press_release"].n > 0

\* C9: on an argument that is not a text no classifier operation lets the
\* error out: classify_document returns other, get_classification_confidence
\* and extract_key_indicators the empty mapping, is_financial_document and
\* is_mna_document false.
C9_NoErrorPropagates ==
  (clsOp # "none" /\ ~IsText)
    => /\ ~clsResult.raised
       /\ clsOp = "classify_document" => clsResult.val = "other"
       /\ clsOp \in {"get_classification_confidence", "extract_key_indicators"}
            => DOMAIN clsResult.val = {}
       /\ clsOp \in {"is_financial_document", "is_mna_document"}
            => clsResult.val = FALSE

\* the financial keywords that occur in the text, whatever their case
FinancialKeywordsIn(text) ==
  { k \in {financial_keywords[i] : i \in 1..Len(financial_keywords)} :
      \E i \in 1..(Len(text) - Len(k) + 1) :
        Lower(SubSeq(text, i, i + Len(k) - 1)) = k }

\* C10: is_financial_document is true exactly when at least 3 distinct
\* financial keywords occur in the text, however often each is repeated.
C10_ThreeDistinctKeywords ==
  (clsOp = "is_financial_document" /\ IsText)
    => /\ ~clsResult.raised
       /\ clsResult.val <=> Cardinality(FinancialKeywordsIn(clsInput.v)) >= 3

\* exactly 3 distinct financial keywords
C10_Witness ==
  /\ clsOp = "is_financial_document"
  /\ IsText
  /\ Cardinality(FinancialKeywordsIn(clsInput.v)) = 3
  /\ clsResult = Returns(TRUE)

(***************************************************************************)
(* Properties of the merge and the cleaning steps                          *)
(***************************************************************************)
\* s without its leading and trailing whitespace
Trimmed(s) ==
  IF \A i \in 1..Len(s) : IsSpace(CharAt(s, i)) THEN ""
  ELSE LET first == CHOOSE i \in 1..Len(s) :
                      ~IsSpace(CharAt(s, i)) /\ \A j \in 1..(i - 1) : IsSpace(CharAt(s, j))
           last  == CHOOSE i \in 1..Len(s) :
                      ~IsSpace(CharAt(s, i)) /\ \A j \in (i + 1)..Len(s) : IsSpace(CharAt(s, j))
       IN  SubSeq(s, first, last)

\* s trimmed, and the empty string when that is a sentinel
TrimCollapse(s) ==
  IF Lower(Trimmed(s)) \in {"", "n/a", "null", "none"} THEN "" ELSE Trimmed(s)

\* the parsed object has every schema section and field, with string values
CompleteStrings(data) ==
  \A s \in Sections :
    /\ s \in DOMAIN data
    /\ data[s].isdict
    /\ \A f \in SchemaFields(s) :
         f \in DOMAIN data[s].fields /\ data[s].fields[f].t = "str"

\* C11 as stated: for a parsed object with every schema field as a string,
\* _validate_and_clean_data returns, field by field, the object's values
\* trimmed and with the sentinels collapsed to the empty string.
C11_RoundTrip ==
  (stages.reached /\ CompleteStrings(stages.data))
    => \A s \in Sections : \A f \in SchemaFields(s) :
         stages.cleaned[s][f] = Str(TrimCollapse(stages.data[s].fields[f].v))

\* C11 amended: the same, except that a monetary field is the trimmed and
\* collapsed value with every character but digits and '.' removed.
C11_RoundTripButMonetary ==
  (stages.reached /\ CompleteStrings(stages.data))
    => \A s \in Sections : \A f \in SchemaFields(s) :
         stages.cleaned[s][f] =
           IF <<s, f>> \in monetary_fields
             THEN Str(KeepNumeric(TrimCollapse(stages.data[s].fields[f].v)))
             ELSE Str(TrimCollapse(stages.data[s].fields[f].v))

\* a complete object whose values get trimmed, collapsed and, for revenue,
\* reduced to the number
C11_Witness ==
  /\ stages.reached
  /\ CompleteStrings(stages.data)
  /\ stages.data["deal_summary"].fields["buyer"] = Str("  buyer\n")
  /\ stages.cleaned["deal_summary"]["buyer"] = Str("buyer")
  /\ stages.data["financials"].fields["revenue"] = Str("N/A")
  /\ stages.cleaned["financials"]["revenue"] = Str("")
  /\ stages.data["advisors"].fields["other_advisors"] = Str("None")
  /\ stages.cleaned["advisors"]["other_advisors"] = Str("")

\* the parsed object of the latest call has section s with field f
InData(s, f) ==
  /\ s \in DOMAIN stages.data
  /\ stages.data[s].isdict
  /\ f \in DOMAIN stages.data[s].fields

\* every character of s is a digit or '.'
NumericOnly(s) == \A i \in 1..Len(s) : IsDigit(CharAt(s, i)) \/ CharAt(s, i) = "."

\* s has a digit or a '.'
HasNumeric(s) == \E i \in 1..Len(s) : IsDigit(CharAt(s, i)) \/ CharAt(s, i) = "."

\* C12: after cleaning, a monetary field the response gives is the text of
\* the given value without the characters that are neither digit nor '.': a
\* string of digits and '.' only, empty when the value has nothing numeric.
C12_MonetaryDigitsOnly ==
  stages.reached
    => \A sf \in monetary_fields :
         InData(sf[1], sf[2])
           => LET given == stages.data[sf[1]].fields[sf[2]]
                  clean == stages.cleaned[sf[1]][sf[2]]
              IN  /\ clean.t = "str"
                  /\ NumericOnly(clean.v)
                  /\ clean.v = KeepNumeric(given.v)
                  /\ ~HasNumeric(given.v) => clean.v = ""

\* "DEAL_" followed by 8 digits, '_' and 6 digits
IsTimestampId(s) ==
  /\ Len(s) = 20
  /\ SubSeq(s, 1, 5) = "DEAL_"
  /\ \A i \in 6..13 : IsDigit(CharAt(s, i))
  /\ CharAt(s, 14) = "_"
  /\ \A i \in 15..20 : IsDigit(CharAt(s, i))

DateStepFields ==
  UNION { {<<s, f>> : f \in DOMAIN stages.merged[s]} : s \in DOMAIN stages.merged }

\* C18 as stated: _validate_dates leaves every non-empty value of the four
\* date fields, and every other field, as it was.
C18_DatesUnchanged ==
  stages.reached
    => /\ DOMAIN stages.dated = DOMAIN stages.merged
       /\ \A sf \in DateStepFields :
            (sf \notin date_fields \/ Truthy(stages.merged[sf[1]][sf[2]]))
              => stages.dated[sf[1]][sf[2]] = stages.merged[sf[1]][sf[2]]

\* C18 amended: _validate_dates leaves every non-empty text of the four date
\* fields, and every other field, as it was; a non-empty date value that is
\* not a text becomes the empty string.
C18_DateTextsUnchanged ==
  stages.reached
    => /\ DOMAIN stages.dated = DOMAIN stages.merged
       /\ \A sf \in DateStepFields :
            LET before == stages.merged[sf[1]][sf[2]]
                after  == stages.dated[sf[1]][sf[2]]
            IN  IF sf \in date_fields /\ Truthy(before) /\ before.t # "str"
                  THEN after = Str("")
                  ELSE after = before

\* a date text that does not start with YYYY-MM-DD went through
C18_Witness ==
  /\ stages.reached
  /\ stages.merged["deal_summary"]["announcement_date"] = Str("15 March 2024")
  /\ stages.dated["deal_summary"]["announcement_date"] = Str("15 March 2024")
  /\ stages.merged["power_plant_details"]["cod"] = Str("2024-01-31")
  /\ stages.dated = stages.merged

\* C20: every field of the record of a call that did not fail is a string.
C20_AllFieldsAreStrings ==
  (stages.reached /\ returned.kind = "record")
    => \A s \in DOMAIN returned.rec : \A f \in DOMAIN returned.rec[s] :
         returned.rec[s][f].t = "str"

(***************************************************************************)
(* Properties of the scores                                                *)
(***************************************************************************)
\* the places of text where term occurs, whatever the case, overlapping
\* occurrences included
Occurrences(text, term) ==
  { i \in 1..(Len(text) - Len(term) + 1) :
      Lower(SubSeq(text, i, i + Len(term) - 1)) = Lower(term) }

\* the number of occurrences in text of terms[i..]
RECURSIVE OccurrencesOfAll(_, _, _)
OccurrencesOfAll(text, terms, i) ==
  IF i > Len(terms) THEN 0
  ELSE Cardinality(Occurrences(text, terms[i])) + OccurrencesOfAll(text, terms, i + 1)

\* occurrences of the keywords plus twice those of the phrases
WeightedOccurrences(text, l) ==
    OccurrencesOfAll(text, patterns[l].keywords, 1)
  + 2 * OccurrencesOfAll(text, patterns[l].phrases, 1)

TotalOccurrences(text) ==
    WeightedOccurrences(text, LabelOrder[1]) + WeightedOccurrences(text, LabelOrder[2])
  + WeightedOccurrences(text, LabelOrder[3]) + WeightedOccurrences(text, LabelOrder[4])

\* C17: the score of a document type is the number of case-insensitive
\* occurrences of its keywords in the text, every occurrence counted, plus
\* twice that of its phrases; the confidences are these scores over their sum.
C17_ScoreCountsOccurrences ==
  (clsOp = "get_classification_confidence" /\ IsText)
    => \A l \in Labels :
         /\ Scores(clsInput.v)[l] = WeightedOccurrences(clsInput.v, l)
         /\ clsResult.val[l] =
              IF TotalOccurrences(clsInput.v) > 0
                THEN Frac(WeightedOccurrences(clsInput.v, l) * 100,
                          TotalOccurrences(clsInput.v))
                ELSE Frac(0, 1)

\* "annual report" is keyword and phrase: each of its occurrences scores 3
C17_Witness ==
  /\ clsOp = "get_classification_confidence"
  /\ clsInput = Str("Annual Report Annual Report ")
  /\ Scores(clsInput.v)["annual_report"] = 6
  /\ clsResult.val["annual_report"] = Frac(600, 6)

(***************************************************************************)
(* Properties of the export                                                *)
(***************************************************************************)
\* rows is the header row of worksheet t and then one row for each of the
\* exports 1..n, in this order
HeaderThenExports(rows, t, n) ==
  /\ Len(rows) = n + 1
  /\ rows[1] = HeaderRow(t)
  /\ \A k \in 1..n : rows[k + 1].export = k

\* C14: every write_to_sheet call on an initialized writer adds one row to
\* each section worksheet, after the rows that are there and moving none of
\* them: after n exports a worksheet is its header row and the rows of the
\* exports 1..n in this order, rows of empty values included.
C14_HeaderThenRowsInExportOrder ==
  exportCount > 0 =>
    \A t \in DOMAIN worksheets_config : HeaderThenExports(sheets[t], t, exportCount)

AllDone == \A e \in Exporters : exporters[e].pc = "done"

\* the row export e writes for section s
RowOfExporter(e, s) ==
  RowOf(RowData(SectionOf(exporters[e].data, s), RowKeys[s]), e)

\* C15: when two exports run side by side, their reads of the row count and
\* their insertions interleaved in any order, every worksheet ends with its
\* header row and the row of each export exactly once.
C15_BothRowsExactlyOnce ==
  AllDone =>
    \A i \in 1..Len(SectionOrder) :
      LET s    == SectionOrder[i]
          rows == sheets[worksheet_name[s]]
      IN  /\ Len(rows) = 1 + Cardinality(Exporters)
          /\ rows[1] = HeaderRow(worksheet_name[s])
          /\ \A e \in Exporters :
               Cardinality({ k \in 1..Len(rows) : rows[k] = RowOfExporter(e, s) }) = 1

\* both exports read the same row count for the last worksheet before either
\* inserted, and both rows are there
C15_Witness ==
  /\ AllDone
  /\ exporters[1].next_row = exporters[2].next_row
  /\ exporters[1].data # exporters[2].data
  /\ Len(sheets["Metadata"]) = 3

\* the worksheets whose Deal ID the _write_ methods of the source read
IdFromSection == {"Deal Summary", "Financials", "Advisors"}

EveryStrategyFails(client, doc) ==
  /\ doc.plumber.raised
  /\ doc.mupdf.raised
  /\ client => doc.ocr.raised

\* C16: when every extraction strategy fails on a document, extract_text
\* raises to its caller: the upload does not classify, does not extract and
\* does not answer with success.
C16_UnreadableDocumentRaises ==
  (upload.status # 0 /\ EndsWith(upload.filename, ".pdf")
     /\ EveryStrategyFails(vision_client, upload.document))
    => /\ upload.extracted.raised
       /\ ~upload.classified
       /\ upload.status # 200

(***************************************************************************)
(* Properties of the endpoints                                             *)
(***************************************************************************)
\* C21: the upload endpoint answers a file whose name does not end in .pdf
\* with 400 and the export endpoint answers a body without extracted_data
\* with 400; 500 is answered only when the processing or the export fails.
C21_BadRequestsGet400 ==
  /\ (upload.status # 0 /\ ~EndsWith(upload.filename, ".pdf")) => upload.status = 400
  /\ (exportAnswer.status # 0 /\ ~exportAnswer.body.has_data) => exportAnswer.status = 400
  /\ upload.status = 500 => EndsWith(upload.filename, ".pdf")
  /\ exportAnswer.status = 500 => (exportAnswer.body.has_data /\ exportResult.raised)
====
